---- MODULE Spec2Model ----
(***************************************************************************)
(* Model of the aggregation and comparison engine of the keyword sentiment *)
(* analyzer: DataProcessor.generate_insights and                           *)
(* DataProcessor.compare_with_webpage (src/utils/data_processor.py), fed   *)
(* with records shaped like the classifier's output                        *)
(* (src/utils/api_client.py), and of the run of main() (src/main.py) that   *)
(* fetches the SERP, classifies every title, aggregates, fetches and       *)
(* classifies the webpage, compares and renders.                           *)
(*                                                                         *)
(* Python values whose type the code inspects (sentiment, sentiment_score, *)
(* emotion labels) are tagged records [type, num, text]. Python strings    *)
(* that the code scans (title, content, keyword) are sequences of          *)
(* one-character strings. A Python dict is a TLA+ record; a key the dict   *)
(* lacks is a field the record lacks. A quotient a / b is kept exactly, as *)
(* the reduced fraction [num, den].                                        *)
(***************************************************************************)
EXTENDS Integers, Sequences, FiniteSets, TLC

VARIABLES enriched_data, webpage_analysis, keyword, insights, comparison,
          pc, config, url, serp_data, fetched_content, classifier_calls,
          last_response, rendered, summary_calls, raised, requests_sent

\* The state of a run of main() beyond the five values above.
mainvars ==
    <<pc, config, url, serp_data, fetched_content, classifier_calls,
      last_response, rendered, summary_calls, raised, requests_sent>>

vars == <<enriched_data, webpage_analysis, keyword, insights, comparison, mainvars>>

\* ------------------------------------------------------------------------
\* Bounds
\* ------------------------------------------------------------------------

\* Longest list of enriched records handed to the two operations.
MaxLen == 3

\* ------------------------------------------------------------------------
\* Python values
\* ------------------------------------------------------------------------

PyNone == [type |-> "NoneType", num |-> 0, text |-> ""]

PyStr(s) == [type |-> "str", num |-> 0, text |-> s]

PyInt(n) == [type |-> "int", num |-> n, text |-> ""]

PyFloat(n) == [type |-> "float", num |-> n, text |-> ""]

\* True is 1 and False is 0 wherever Python does arithmetic on a bool.
PyBool(b) == [type |-> "bool", num |-> IF b THEN 1 ELSE 0, text |-> ""]

\* dict.get(key, default)
Get(d, key, default) == IF key \in DOMAIN d THEN d[key] ELSE default

\* isinstance(v, (int, float)); bool is a subclass of int.
isinstance_int_float(v) == v.type \in {"int", "float", "bool"}

\* ------------------------------------------------------------------------
\* Exact arithmetic
\* ------------------------------------------------------------------------

Abs(n) == IF n < 0 THEN -n ELSE n

RECURSIVE Gcd(_, _)
Gcd(a, b) == IF b = 0 THEN a ELSE Gcd(b, a % b)

\* The quotient n / d (d > 0) as a reduced fraction.
Divide(n, d) ==
    LET g == Gcd(Abs(n), d)
    IN  [num |-> n \div g, den |-> d \div g]

\* The literal 0 of the "else 0" branches.
Zero == [num |-> 0, den |-> 1]

\* ------------------------------------------------------------------------
\* Python strings as sequences of characters
\* ------------------------------------------------------------------------

ascii_uppercase ==
    <<"A","B","C","D","E","F","G","H","I","J","K","L","M",
      "N","O","P","Q","R","S","T","U","V","W","X","Y","Z">>

ascii_lowercase ==
    <<"a","b","c","d","e","f","g","h","i","j","k","l","m",
      "n","o","p","q","r","s","t","u","v","w","x","y","z">>

Whitespace == {" ", "\t", "\n"}

LowerChar(c) ==
    IF \E i \in 1..26 : ascii_uppercase[i] = c
    THEN ascii_lowercase[CHOOSE i \in 1..26 : ascii_uppercase[i] = c]
    ELSE c

\* str.lower()
lower(s) == [i \in 1..Len(s) |-> LowerChar(s[i])]

\* bool(s.strip()): some character of s is not whitespace.
strip_nonempty(s) == \E i \in 1..Len(s) : s[i] \notin Whitespace

\* len(s.split()): the number of maximal runs of non-whitespace characters.
RECURSIVE CountWords(_, _, _)
CountWords(s, i, inword) ==
    IF i > Len(s) THEN 0
    ELSE IF s[i] \in Whitespace THEN CountWords(s, i + 1, FALSE)
    ELSE (IF inword THEN 0 ELSE 1) + CountWords(s, i + 1, TRUE)

split_len(s) == CountWords(s, 1, FALSE)

\* s[i:i+len(sub)] == sub
MatchAt(s, sub, i) ==
    /\ i + Len(sub) - 1 <= Len(s)
    /\ \A k \in 1..Len(sub) : s[i + k - 1] = sub[k]

\* sub in s, scanning from the left.
RECURSIVE ScanIn(_, _, _)
ScanIn(s, sub, i) ==
    IF i + Len(sub) - 1 > Len(s) THEN FALSE
    ELSE IF MatchAt(s, sub, i) THEN TRUE
    ELSE ScanIn(s, sub, i + 1)

str_in(sub, s) == ScanIn(s, sub, 1)

\* s.count(sub): occurrences found left to right, the scan resuming after
\* the end of each occurrence; the empty string occurs len(s) + 1 times.
RECURSIVE ScanCount(_, _, _)
ScanCount(s, sub, i) ==
    IF i + Len(sub) - 1 > Len(s) THEN 0
    ELSE IF MatchAt(s, sub, i) THEN 1 + ScanCount(s, sub, i + Len(sub))
    ELSE ScanCount(s, sub, i + 1)

str_count(s, sub) ==
    IF Len(sub) = 0 THEN Len(s) + 1 ELSE ScanCount(s, sub, 1)

\* ------------------------------------------------------------------------
\* pandas.Series(values).value_counts().to_dict() and sorted(...)
\* ------------------------------------------------------------------------

\* Number of elements of xs equal to v.
RECURSIVE Occurrences(_, _)
Occurrences(xs, v) ==
    IF xs = <<>> THEN 0
    ELSE (IF Head(xs) = v THEN 1 ELSE 0) + Occurrences(Tail(xs), v)

\* The distinct non-null values of xs in order of first appearance
\* (value_counts drops None: dropna=True).
RECURSIVE Uniques(_, _)
Uniques(xs, seen) ==
    IF xs = <<>> THEN <<>>
    ELSE IF Head(xs) = PyNone \/ Head(xs) \in seen
         THEN Uniques(Tail(xs), seen)
         ELSE <<Head(xs)>> \o Uniques(Tail(xs), seen \cup {Head(xs)})

\* Insert the pair p into pairs (sorted by count, descending) after every
\* pair whose count is at least p's: a stable descending sort.
RECURSIVE InsertDesc(_, _)
InsertDesc(pairs, p) ==
    IF pairs = <<>> THEN <<p>>
    ELSE IF Head(pairs)[2] >= p[2]
         THEN <<Head(pairs)>> \o InsertDesc(Tail(pairs), p)
         ELSE <<p>> \o pairs

\* sorted(pairs, key=lambda x: x[1], reverse=True)
RECURSIVE sorted_by_count_desc(_)
sorted_by_count_desc(pairs) ==
    IF pairs = <<>> THEN <<>>
    ELSE InsertDesc(sorted_by_count_desc(SubSeq(pairs, 1, Len(pairs) - 1)),
                    pairs[Len(pairs)])

\* value_counts().to_dict(): the dict as its sequence of (key, count) items,
\* most frequent first.
value_counts(xs) ==
    LET u == Uniques(xs, {})
    IN  sorted_by_count_desc([i \in 1..Len(u) |-> <<u[i], Occurrences(xs, u[i])>>])

\* seq[:n]
Take(seq, n) == SubSeq(seq, 1, IF Len(seq) < n THEN Len(seq) ELSE n)

\* Number of entries top_emotions keeps.
TopN == 3

\* sum(values) over a list of tagged numbers.
RECURSIVE sum(_)
sum(xs) == IF xs = <<>> THEN 0 ELSE Head(xs).num + sum(Tail(xs))

\* not x, for a list.
not_list(xs) == Len(xs) = 0

\* not x, for a dict or None: None and the empty dict are falsy.
not_dict(d) == d = PyNone \/ DOMAIN d = {}

\* ------------------------------------------------------------------------
\* DataProcessor.generate_insights
\* ------------------------------------------------------------------------

\* [item.get("sentiment") for item in enriched_data]
sentiments(ed) == [i \in 1..Len(ed) |-> Get(ed[i], "sentiment", PyNone)]

\* [emotion for item in enriched_data for emotion in item.get("emotions", [])]
RECURSIVE all_emotions(_)
all_emotions(ed) ==
    IF ed = <<>> THEN <<>>
    ELSE Get(Head(ed), "emotions", <<>>) \o all_emotions(Tail(ed))

\* sentiment_scores with the isinstance filter left out.
RECURSIVE sentiment_scores_unfiltered(_)
sentiment_scores_unfiltered(ed) ==
    IF ed = <<>> THEN <<>>
    ELSE <<Get(Head(ed), "sentiment_score", PyInt(0))>>
         \o sentiment_scores_unfiltered(Tail(ed))

\* [item.get("sentiment_score", 0) for item in enriched_data
\*  if isinstance(item.get("sentiment_score", 0), (int, float))]
RECURSIVE sentiment_scores(_)
sentiment_scores(ed) ==
    IF ed = <<>> THEN <<>>
    ELSE LET score == Get(Head(ed), "sentiment_score", PyInt(0))
         IN  (IF isinstance_int_float(score) THEN <<score>> ELSE <<>>)
             \o sentiment_scores(Tail(ed))

\* sum(sentiment_scores) / len(sentiment_scores) if sentiment_scores else 0
average_sentiment_score(ed) ==
    LET scores == sentiment_scores(ed)
    IN  IF Len(scores) > 0 THEN Divide(sum(scores), Len(scores)) ELSE Zero

\* top_emotions with the sort's reverse=True left out: least frequent first.
top_emotions_ascending(ed) ==
    LET desc == sorted_by_count_desc(value_counts(all_emotions(ed)))
    IN  Take([i \in 1..Len(desc) |-> desc[Len(desc) + 1 - i]], TopN)

\* sorted(emotion_counts.items(), key=lambda x: x[1], reverse=True)[:3]
top_emotions(ed) ==
    Take(sorted_by_count_desc(value_counts(all_emotions(ed))), TopN)

\* The early return on "not enriched_data".
insights_error == [error |-> "No data available for insights generation"]

\* generate_insights with total_positions counting the scored records only.
generate_insights_counting_scored(ed) ==
    IF not_list(ed) THEN insights_error
    ELSE [sentiment_distribution |-> value_counts(sentiments(ed)),
          top_emotions |-> top_emotions(ed),
          average_sentiment_score |-> average_sentiment_score(ed),
          total_positions |-> Len(sentiment_scores(ed))]

\* generate_insights without its early return.
generate_insights_unguarded(ed) ==
    [sentiment_distribution |-> value_counts(sentiments(ed)),
     top_emotions |-> top_emotions(ed),
     average_sentiment_score |-> average_sentiment_score(ed),
     total_positions |-> Len(ed)]

generate_insights(ed) ==
    IF not_list(ed) THEN insights_error
    ELSE [sentiment_distribution |-> value_counts(sentiments(ed)),
          top_emotions |-> top_emotions(ed),
          average_sentiment_score |-> average_sentiment_score(ed),
          total_positions |-> Len(ed)]

\* ------------------------------------------------------------------------
\* DataProcessor.compare_with_webpage
\* ------------------------------------------------------------------------

\* serp_sentiment_scores with a record that lacks the key skipped instead of
\* defaulted to 0.
serp_sentiment_scores_present(ep) ==
    LET score(i) == Get(ep[i], "sentiment_score", PyNone)
        F[n \in 0..Len(ep)] ==
            IF n = 0 THEN <<>>
            ELSE IF isinstance_int_float(score(n))
                 THEN Append(F[n - 1], score(n))
                 ELSE F[n - 1]
    IN  F[Len(ep)]

\* The records of enriched_positions whose sentiment_score passes
\* isinstance(item.get("sentiment_score", 0), (int, float)), as their scores.
serp_sentiment_scores(ep) ==
    LET score(i) == Get(ep[i], "sentiment_score", PyInt(0))
        F[n \in 0..Len(ep)] ==
            IF n = 0 THEN <<>>
            ELSE IF isinstance_int_float(score(n))
                 THEN Append(F[n - 1], score(n))
                 ELSE F[n - 1]
    IN  F[Len(ep)]

\* sum(serp_sentiment_scores) / len(serp_sentiment_scores)
\* if serp_sentiment_scores else 0
serp_average_sentiment(ep) ==
    LET scores == serp_sentiment_scores(ep)
    IN  IF scores # <<>> THEN Divide(sum(scores), Len(scores)) ELSE Zero

\* title_has_keyword with both lower() calls left out.
title_has_keyword_cased(item, kw) == str_in(kw, Get(item, "title", <<>>))

\* keyword.lower() in item.get("title", "").lower()
title_has_keyword(item, kw) == str_in(lower(kw), lower(Get(item, "title", <<>>)))

\* sum(... for item in enriched_positions): True counts 1, False 0.
RECURSIVE sum_title_matches(_, _)
sum_title_matches(ep, kw) ==
    IF ep = <<>> THEN 0
    ELSE (IF title_has_keyword(Head(ep), kw) THEN 1 ELSE 0)
         + sum_title_matches(Tail(ep), kw)

serp_keyword_density(ep, kw) == Divide(sum_title_matches(ep, kw), Len(ep))

\* webpage_keyword_density normalised by len(webpage_content), the number
\* of characters, instead of the number of words.
webpage_keyword_density_per_char(wa, kw) ==
    LET webpage_content == Get(wa, "content", <<>>)
    IN  IF strip_nonempty(webpage_content)
        THEN Divide(str_count(lower(webpage_content), lower(kw)),
                    Len(webpage_content))
        ELSE Zero

\* Keyword density in webpage content.
webpage_keyword_density(wa, kw) ==
    LET webpage_content == Get(wa, "content", <<>>)
    IN  IF strip_nonempty(webpage_content)
        THEN Divide(str_count(lower(webpage_content), lower(kw)),
                    split_len(webpage_content))
        ELSE Zero

\* [item.get("primary_emotion", "none") for item in enriched_positions]
serp_primary_emotions(ep) ==
    [i \in 1..Len(ep) |-> Get(ep[i], "primary_emotion", "none")]

\* serp_tones reading the key of the comprehension above it.
serp_tones_from_emotion(ep) ==
    [i \in 1..Len(ep) |-> Get(ep[i], "primary_emotion", "none")]

\* [item.get("tone", "none") for item in enriched_positions]
serp_tones(ep) == [i \in 1..Len(ep) |-> Get(ep[i], "tone", "none")]

\* The early return on "not enriched_positions or not webpage_analysis".
comparison_error == [error |-> "Insufficient data for comparison"]

\* The guard with its test of webpage_analysis left out.
insufficient_data_serp_only(ep, wa) == not_list(ep)

\* not enriched_positions or not webpage_analysis
insufficient_data(ep, wa) == not_list(ep) \/ not_dict(wa)

compare_with_webpage(ep, wa, kw) ==
    IF insufficient_data(ep, wa) THEN comparison_error
    ELSE [serp_average_sentiment_score |-> serp_average_sentiment(ep),
          webpage_sentiment_score |-> Get(wa, "sentiment_score", PyInt(0)),
          serp_primary_emotions |-> serp_primary_emotions(ep),
          webpage_primary_emotion |-> Get(wa, "primary_emotion", "none"),
          serp_tones |-> serp_tones(ep),
          webpage_tone |-> Get(wa, "tone", "none"),
          serp_keyword_density |-> serp_keyword_density(ep, kw),
          webpage_keyword_density |-> webpage_keyword_density(wa, kw)]

\* ------------------------------------------------------------------------
\* The classifier's fixed records (APIClient.analyze_sentiment_with_openai)
\* ------------------------------------------------------------------------

\* Returned when the text is empty or whitespace-only.
neutral_record ==
    [sentiment |-> PyStr("neutral"), sentiment_score |-> PyInt(0),
     primary_emotion |-> "none", emotions |-> <<>>,
     emotional_intensity |-> 0, intent |-> "none", tone |-> "none",
     key_psychological_triggers |-> <<>>,
     brief_explanation |-> "No text provided"]

\* Returned when the request, the JSON decoding or a key lookup fails.
error_record ==
    [sentiment |-> PyStr("error"), sentiment_score |-> PyInt(0),
     primary_emotion |-> "none", emotions |-> <<>>,
     emotional_intensity |-> 0, intent |-> "none", tone |-> "none",
     key_psychological_triggers |-> <<>>,
     brief_explanation |-> "Error"]

\* ------------------------------------------------------------------------
\* Inputs
\* ------------------------------------------------------------------------

\* The dict d without the keys in ks.
Without(d, ks) == [k \in DOMAIN d \ ks |-> d[k]]

\* {**d, **e}
Merge(d, e) ==
    [k \in DOMAIN d \cup DOMAIN e |-> IF k \in DOMAIN e THEN e[k] ELSE d[k]]

title_tips ==
    <<"B","e","s","t"," ","D","i","g","i","t","a","l"," ",
      "M","a","r","k","e","t","i","n","g"," ","T","i","p","s">>

title_101 == <<"M","a","r","k","e","t","i","n","g"," ","1","0","1">>

title_unrelated ==
    <<"U","n","r","e","l","a","t","e","d"," ","T","o","p","i","c">>

title_abab == <<"a","b"," ","A","B">>

content_guide ==
    <<"m","a","r","k","e","t","i","n","g"," ","m","a","r","k","e","t","i","n","g"," ",
      "s","t","r","a","t","e","g","y"," ","g","u","i","d","e">>

content_mixed == <<" ","a","b"," ","x","A","B","a","b","\n","a"," ">>

content_aaa == <<"a","a","a","a","a">>

content_blank == <<" ","\n"," ">>

Keywords ==
    { <<"m","a","r","k","e","t","i","n","g">>, <<"A","b">>, <<"a","a">>, <<>> }

\* A SERP position as the provider returns it.
position_101 == [title |-> title_101, position |-> 1]

\* An enriched position: {**pos, **sentiment_analysis}.
enriched_base ==
    Merge(position_101,
          [sentiment |-> PyStr("positive"), sentiment_score |-> PyInt(1),
           primary_emotion |-> "joy", emotions |-> <<PyStr("joy")>>,
           tone |-> "urgent"])

\* Records that differ in the fields generate_insights reads.
InsightRecords ==
    { Without(enriched_base, {"sentiment"}),
      Merge(enriched_base, [sentiment |-> PyNone]),
      enriched_base,
      Merge(enriched_base, [sentiment |-> PyStr("negative"),
                            sentiment_score |-> PyInt(-1)]),
      Without(enriched_base, {"sentiment_score"}),
      Merge(enriched_base, [sentiment_score |-> PyNone]),
      Merge(enriched_base, [sentiment_score |-> PyStr("0.8")]),
      Merge(enriched_base, [sentiment_score |-> PyFloat(2)]),
      Merge(enriched_base, [sentiment_score |-> PyBool(TRUE)]),
      Merge(enriched_base, [sentiment |-> PyStr("mixed"),
                            sentiment_score |-> PyFloat(-3)]),
      Merge(position_101, error_record),
      Without(enriched_base, {"emotions"}),
      Merge(enriched_base, [emotions |-> <<PyStr("joy"), PyStr("fear")>>]),
      Merge(enriched_base,
            [emotions |-> <<PyStr("trust"), PyStr("anger"), PyStr("joy")>>]),
      Merge(enriched_base,
            [emotions |-> <<PyStr("fear"), PyStr("trust"), PyStr("fear")>>]) }

\* Records that differ in the fields only compare_with_webpage reads.
SerpRecords ==
    { enriched_base,
      Without(enriched_base, {"title"}),
      Merge(enriched_base, [title |-> title_tips]),
      Merge(enriched_base, [title |-> title_unrelated]),
      Merge(enriched_base, [title |-> title_abab]),
      Without(enriched_base, {"primary_emotion", "tone"}),
      Merge(enriched_base, [primary_emotion |-> "fear", tone |-> "technical"]),
      Merge(position_101, neutral_record) }

\* What main() or another caller may pass as webpage_analysis: None, an
\* empty dict, a classifier record, and records carrying page content.
WebpageRecords ==
    { PyNone,
      Without(neutral_record, DOMAIN neutral_record),
      neutral_record,
      Merge(neutral_record, [content |-> <<>>]),
      Merge(neutral_record, [content |-> content_blank]),
      Merge(enriched_base, [content |-> content_guide]),
      Merge(enriched_base, [content |-> content_mixed]),
      [content |-> content_aaa] }

\* All lists over S of length at most n.
Lists(S, n) == UNION {[1..m -> S] : m \in 0..n}

\* ------------------------------------------------------------------------
\* State machine: a caller holds the inputs and applies the two operations
\* ------------------------------------------------------------------------

\* The value of a result variable before its operation has returned.
Pending == [pending |-> TRUE]

\* The response slot before any request to the language-model service.
NoResponse == [status |-> "none"]

\* What os.getenv found for the two credentials: set or not.
Configs == [AHREFS_AUTH_TOKEN : BOOLEAN, OPENAI_API_KEY : BOOLEAN]

\* No run of main() is in progress: the operations are called directly.
NoRun ==
    /\ pc = "library"
    /\ config = [AHREFS_AUTH_TOKEN |-> TRUE, OPENAI_API_KEY |-> TRUE]
    /\ url = <<>>
    /\ serp_data = Pending
    /\ fetched_content = Pending
    /\ classifier_calls = <<>>
    /\ last_response = NoResponse
    /\ rendered = {}
    /\ summary_calls = 0
    /\ raised = ""
    /\ requests_sent = {}

Init ==
    /\ \/ /\ enriched_data \in Lists(InsightRecords, MaxLen)
          /\ webpage_analysis = neutral_record
          /\ keyword \in {<<"m","a","r","k","e","t","i","n","g">>}
       \/ /\ enriched_data \in Lists(SerpRecords, MaxLen)
          /\ webpage_analysis = neutral_record
          /\ keyword \in Keywords
       \/ /\ enriched_data \in Lists(SerpRecords, 1)
          /\ webpage_analysis \in WebpageRecords
          /\ keyword \in Keywords
    /\ insights = Pending
    /\ comparison = Pending
    /\ NoRun

\* serp_insights = DataProcessor.generate_insights(enriched_positions)
GenerateInsights ==
    /\ insights = Pending
    /\ insights' = generate_insights(enriched_data)
    /\ UNCHANGED <<enriched_data, webpage_analysis, keyword, comparison, mainvars>>

\* comparison_results = DataProcessor.compare_with_webpage(
\*     enriched_positions, webpage_analysis, keyword)
CompareWithWebpage ==
    /\ comparison = Pending
    /\ comparison' = compare_with_webpage(enriched_data, webpage_analysis, keyword)
    /\ UNCHANGED <<enriched_data, webpage_analysis, keyword, insights, mainvars>>

Next == GenerateInsights \/ CompareWithWebpage

Spec == Init /\ [][Next]_vars

\* ------------------------------------------------------------------------
\* APIClient.analyze_sentiment_with_openai
\* ------------------------------------------------------------------------

\* The keys of the dict every return statement of the classifier builds.
SentimentFields ==
    {"sentiment", "sentiment_score", "primary_emotion", "emotions",
     "emotional_intensity", "intent", "tone", "key_psychological_triggers",
     "brief_explanation"}

\* Returned when the response has no "choices" or an empty list of them.
empty_result_record ==
    [sentiment |-> PyStr("neutral"), sentiment_score |-> PyInt(0),
     primary_emotion |-> "none", emotions |-> <<>>,
     emotional_intensity |-> 0, intent |-> "none", tone |-> "none",
     key_psychological_triggers |-> <<>>,
     brief_explanation |-> "OpenAI analysis result was empty."]

\* not text or not text.strip(), with only the emptiness test.
not_text_empty_only(text) == Len(text) = 0

\* not text or not text.strip()
not_text(text) == Len(text) = 0 \/ ~strip_nonempty(text)

\* The parsed message content handed back as it is.
classifier_record_raw(sentiment_data) == sentiment_data

\* The parsed message content with the defaults filled in underneath it.
classifier_record_defaults_under(sentiment_data) ==
    Merge(empty_result_record, sentiment_data)

\* The dict built from sentiment_data.get(field, default), field by field.
classifier_record(sentiment_data) ==
    [sentiment |-> Get(sentiment_data, "sentiment", PyStr("neutral")),
     sentiment_score |-> Get(sentiment_data, "sentiment_score", PyInt(0)),
     primary_emotion |-> Get(sentiment_data, "primary_emotion", "none"),
     emotions |-> Get(sentiment_data, "emotions", <<>>),
     emotional_intensity |-> Get(sentiment_data, "emotional_intensity", 0),
     intent |-> Get(sentiment_data, "intent", "none"),
     tone |-> Get(sentiment_data, "tone", "none"),
     key_psychological_triggers |->
         Get(sentiment_data, "key_psychological_triggers", <<>>),
     brief_explanation |->
         Get(sentiment_data, "brief_explanation", "No explanation provided")]

\* How a call ends: it returns a value or raises an exception; requested
\* tells whether the HTTP request was sent.
Returned(value, req) == [raised |-> "", ret |-> value, requested |-> req]

Raised(exception) == [raised |-> exception, ret |-> Pending, requested |-> TRUE]

\* A JSON document after decoding: text that is not JSON, an array, or an
\* object with its members.
NotJson == [json |-> "invalid"]

JsonArray == [json |-> "array"]

JsonObject(members) == [json |-> "object", value |-> members]

\* A message content that is a string, given by what json.loads makes of it.
ContentStr(decoded) == [type |-> "str", loads |-> decoded]

\* A message content that is JSON null.
ContentNull == [type |-> "NoneType", loads |-> NotJson]

\* The response body {"choices": [{"message": {"content": c}}]}.
Completion(c) ==
    [status |-> "ok",
     body |-> JsonObject([choices |-> << [message |-> [content |-> c]] >>])]

\* Message contents the model may produce: a complete analysis, an empty
\* object, and an object with an unknown label, a string score and a key
\* outside the required structure.
SentimentData ==
    { [sentiment |-> PyStr("positive"), sentiment_score |-> PyFloat(1),
       primary_emotion |-> "joy", emotions |-> <<PyStr("joy")>>,
       emotional_intensity |-> 1, intent |-> "commercial",
       tone |-> "persuasive", key_psychological_triggers |-> <<"urgency">>,
       brief_explanation |-> "Upbeat"],
      Without(neutral_record, DOMAIN neutral_record),
      [sentiment |-> PyStr("mixed"), sentiment_score |-> PyStr("0.8"),
       content |-> content_guide] }

\* What requests.post may bring back for one classification request.
Responses ==
    { [status |-> "connection_error", body |-> NotJson],
      [status |-> "http_error", body |-> NotJson],
      [status |-> "ok", body |-> NotJson],
      [status |-> "ok", body |-> JsonObject([error |-> "overloaded"])],
      [status |-> "ok", body |-> JsonObject([choices |-> <<>>])],
      [status |-> "ok",
       body |-> JsonObject([choices |-> << [finish_reason |-> "stop"] >>])],
      Completion(ContentNull),
      Completion(ContentStr(NotJson)),
      Completion(ContentStr(JsonArray)) }
    \cup { Completion(ContentStr(JsonObject(d))) : d \in SentimentData }

\* json.loads(content) followed by the return statement: None is not a
\* string (TypeError), text that is not JSON is a JSONDecodeError (caught),
\* and a decoded value that is not a dict has no .get (AttributeError).
analysis_of_content(content) ==
    IF content.type = "NoneType" THEN Raised("TypeError")
    ELSE IF content.loads.json = "invalid" THEN Returned(error_record, TRUE)
    ELSE IF content.loads.json # "object" THEN Raised("AttributeError")
    ELSE Returned(classifier_record(content.loads.value), TRUE)

\* analysis["choices"][0]["message"]["content"]: a missing key is a
\* KeyError (caught).
analysis_of_choice(choice) ==
    IF "message" \notin DOMAIN choice THEN Returned(error_record, TRUE)
    ELSE IF "content" \notin DOMAIN choice.message THEN Returned(error_record, TRUE)
    ELSE analysis_of_content(choice.message.content)

\* The classifier on text, when the service answers response to the request
\* (if one is sent).
analyze_sentiment_with_openai(text, response) ==
    IF not_text(text) THEN Returned(neutral_record, FALSE)
    ELSE IF response.status # "ok" THEN Returned(error_record, TRUE)
    ELSE IF response.body.json = "invalid" THEN Returned(error_record, TRUE)
    ELSE LET analysis == response.body.value
         IN  IF "choices" \in DOMAIN analysis /\ Len(analysis.choices) > 0
             THEN analysis_of_choice(analysis.choices[1])
             ELSE Returned(empty_result_record, TRUE)

\* ------------------------------------------------------------------------
\* APIClient.fetch_webpage_content and generate_summary_and_recommendation
\* as main() defines them
\* ------------------------------------------------------------------------

\* A Python str held in a variable that may also hold None.
Text(s) == [type |-> "str", chars |-> s]

\* What requests.get may bring back for the page: a failed request, HTML
\* without a body element, or HTML whose body converts to text.
Pages ==
    { [status |-> "connection_error", has_body |-> FALSE, text |-> <<>>],
      [status |-> "ok", has_body |-> FALSE, text |-> <<>>],
      [status |-> "ok", has_body |-> TRUE, text |-> content_guide],
      [status |-> "ok", has_body |-> TRUE, text |-> content_mixed],
      [status |-> "ok", has_body |-> TRUE, text |-> content_blank] }

\* fetch_webpage_content: soup.body is None for HTML without a body, and
\* body_content.find_all then raises AttributeError, which is not caught.
fetch_webpage_content(u, page) ==
    IF Len(u) = 0 \/ ~strip_nonempty(u) THEN Returned(PyNone, FALSE)
    ELSE IF page.status # "ok" THEN Returned(PyNone, TRUE)
    ELSE IF ~page.has_body THEN Raised("AttributeError")
    ELSE Returned(Text(page.text), TRUE)

\* What requests.post may bring back for the summary request.
SummaryResponses ==
    { [status |-> "connection_error", body |-> NotJson],
      [status |-> "ok", body |-> JsonObject([error |-> "overloaded"])],
      [status |-> "ok",
       body |-> JsonObject([choices |-> << [finish_reason |-> "stop"] >>])],
      Completion(ContentNull),
      Completion(ContentStr(NotJson)) }

\* generate_summary_and_recommendation: only RequestException is caught, so
\* a missing key (KeyError) and a null content (None.strip, AttributeError)
\* propagate.
generate_summary_and_recommendation(response) ==
    IF response.status # "ok"
    THEN Returned("Error generating summary", TRUE)
    ELSE LET analysis == response.body.value
         IN  IF "choices" \in DOMAIN analysis /\ Len(analysis.choices) > 0
             THEN IF "message" \notin DOMAIN analysis.choices[1]
                  THEN Raised("KeyError")
                  ELSE IF analysis.choices[1].message.content.type = "NoneType"
                       THEN Raised("AttributeError")
                       ELSE Returned("summary", TRUE)
             ELSE Returned("Unable to generate a summary and recommendation.", TRUE)

\* ------------------------------------------------------------------------
\* State machine: one run of main() after the Analyze button is pressed
\* ------------------------------------------------------------------------

\* Longest positions list the SERP provider returns.
MaxPositions == 2

title_blank == <<" ">>

url_page == <<"h","t","t","p","s",":","/","/","a",".","b">>

url_blank == <<" ">>

Urls == { <<>>, url_blank, url_page }

MainKeywords == { <<"m","a","r","k","e","t","i","n","g">>, <<"A","b">> }

\* SERP positions: with a title, with a whitespace title, without a title.
Positions ==
    { position_101,
      [title |-> title_blank, position |-> 2, traffic |-> 10],
      [position |-> 3, url |-> "https://example.com"] }

\* What fetch_ahrefs_serp_data may return: None after a failed request, or
\* the decoded body, with or without a positions list.
SerpResponses ==
    { PyNone,
      Without(neutral_record, DOMAIN neutral_record),
      [error |-> "bad request"] }
    \cup { [positions |-> ps] : ps \in Lists(Positions, MaxPositions) }

InitMain ==
    /\ pc = "button"
    /\ config \in Configs
    /\ url \in Urls
    /\ keyword \in MainKeywords
    /\ serp_data = Pending
    /\ enriched_data = <<>>
    /\ insights = Pending
    /\ fetched_content = Pending
    /\ webpage_analysis = Pending
    /\ comparison = Pending
    /\ classifier_calls = <<>>
    /\ last_response = NoResponse
    /\ rendered = {}
    /\ summary_calls = 0
    /\ raised = ""
    /\ requests_sent = {}

\* The credentials check with only the SERP provider's token tested.
CheckCredentialsTokenOnly ==
    /\ pc = "button"
    /\ IF ~config.AHREFS_AUTH_TOKEN
       THEN /\ rendered' = rendered \cup {"credentials_error"}
            /\ pc' = "stopped"
       ELSE /\ pc' = "fetch_serp"
            /\ UNCHANGED rendered
    /\ UNCHANGED <<enriched_data, webpage_analysis, keyword, insights,
                   comparison, config, url, serp_data, fetched_content,
                   classifier_calls, last_response, summary_calls, raised,
                   requests_sent>>

\* if not Config.AHREFS_AUTH_TOKEN or not Config.OPENAI_API_KEY: return
CheckCredentials ==
    /\ pc = "button"
    /\ IF ~config.AHREFS_AUTH_TOKEN \/ ~config.OPENAI_API_KEY
       THEN /\ rendered' = rendered \cup {"credentials_error"}
            /\ pc' = "stopped"
       ELSE /\ pc' = "fetch_serp"
            /\ UNCHANGED rendered
    /\ UNCHANGED <<enriched_data, webpage_analysis, keyword, insights,
                   comparison, config, url, serp_data, fetched_content,
                   classifier_calls, last_response, summary_calls, raised,
                   requests_sent>>

\* serp_data = fetch_ahrefs_serp_data(...);
\* if serp_data and "positions" in serp_data: ... else: warning, return
FetchSerpData ==
    /\ pc = "fetch_serp"
    /\ requests_sent' = requests_sent \cup {"serp"}
    /\ \E data \in SerpResponses :
          /\ serp_data' = data
          /\ IF ~not_dict(data) /\ "positions" \in DOMAIN data
             THEN /\ pc' = "enrich"
                  /\ UNCHANGED rendered
             ELSE /\ rendered' = rendered \cup {"no_serp_warning"}
                  /\ pc' = "stopped"
    /\ UNCHANGED <<enriched_data, webpage_analysis, keyword, insights,
                   comparison, config, url, fetched_content,
                   classifier_calls, last_response, summary_calls, raised>>

\* title = pos.get("title", "")
title_of(pos) == Get(pos, "title", <<>>)

\* enriched_pos = sentiment_analysis: the position's own fields left out.
enriched_pos_sentiment_only(pos, sentiment_analysis) == sentiment_analysis

\* enriched_pos = {**pos, **sentiment_analysis}
enriched_pos(pos, sentiment_analysis) == Merge(pos, sentiment_analysis)

\* One iteration of the enrichment loop, on the next position.
EnrichPosition ==
    /\ pc = "enrich"
    /\ Len(enriched_data) < Len(serp_data.positions)
    /\ \E response \in Responses :
          LET pos == serp_data.positions[Len(enriched_data) + 1]
              title == title_of(pos)
              sentiment_analysis == analyze_sentiment_with_openai(title, response)
          IN  /\ classifier_calls' =
                    Append(classifier_calls,
                           [text |-> title, outcome |-> sentiment_analysis])
              /\ last_response' =
                    IF sentiment_analysis.requested THEN response ELSE last_response
              /\ requests_sent' =
                    IF sentiment_analysis.requested
                    THEN requests_sent \cup {"classifier"} ELSE requests_sent
              /\ IF sentiment_analysis.raised = ""
                 THEN /\ enriched_data' =
                            Append(enriched_data,
                                   enriched_pos(pos, sentiment_analysis.ret))
                      /\ UNCHANGED <<pc, raised>>
                 ELSE /\ pc' = "crashed"
                      /\ raised' = sentiment_analysis.raised
                      /\ UNCHANGED enriched_data
    /\ UNCHANGED <<webpage_analysis, keyword, insights, comparison, config,
                   url, serp_data, fetched_content, rendered, summary_calls>>

\* serp_insights = DataProcessor.generate_insights(enriched_positions),
\* after the loop has gone through every position.
GenerateSerpInsights ==
    /\ pc = "enrich"
    /\ Len(enriched_data) = Len(serp_data.positions)
    /\ insights' = generate_insights(enriched_data)
    /\ pc' = "webpage"
    /\ UNCHANGED <<enriched_data, webpage_analysis, keyword, comparison,
                   config, url, serp_data, fetched_content, classifier_calls,
                   last_response, rendered, summary_calls, raised,
                   requests_sent>>

\* if url: webpage_content = fetch_webpage_content(url);
\*     if webpage_content: ... else: warning, webpage_analysis = None
\* else: webpage_analysis = None
FetchWebpageContent ==
    /\ pc = "webpage"
    /\ IF Len(url) = 0
       THEN /\ webpage_analysis' = PyNone
            /\ pc' = "compare"
            /\ UNCHANGED <<fetched_content, rendered, raised, requests_sent>>
       ELSE \E page \in Pages :
               LET fetched == fetch_webpage_content(url, page)
               IN  /\ requests_sent' =
                         IF fetched.requested
                         THEN requests_sent \cup {"webpage"} ELSE requests_sent
                   /\ IF fetched.raised # ""
                      THEN /\ pc' = "crashed"
                           /\ raised' = fetched.raised
                           /\ UNCHANGED <<fetched_content, webpage_analysis, rendered>>
                      ELSE /\ fetched_content' = fetched.ret
                           /\ IF fetched.ret.type = "str" /\ Len(fetched.ret.chars) > 0
                              THEN /\ pc' = "analyze_webpage"
                                   /\ UNCHANGED <<webpage_analysis, rendered>>
                              ELSE /\ rendered' = rendered \cup {"webpage_warning"}
                                   /\ webpage_analysis' = PyNone
                                   /\ pc' = "compare"
                           /\ UNCHANGED raised
    /\ UNCHANGED <<enriched_data, keyword, insights, comparison, config, url,
                   serp_data, classifier_calls, last_response, summary_calls>>

\* webpage_analysis = APIClient.analyze_sentiment_with_openai(webpage_content)
AnalyzeWebpageContent ==
    /\ pc = "analyze_webpage"
    /\ \E response \in Responses :
          LET analysis == analyze_sentiment_with_openai(fetched_content.chars, response)
          IN  /\ classifier_calls' =
                    Append(classifier_calls,
                           [text |-> fetched_content.chars, outcome |-> analysis])
              /\ last_response' =
                    IF analysis.requested THEN response ELSE last_response
              /\ requests_sent' =
                    IF analysis.requested
                    THEN requests_sent \cup {"classifier"} ELSE requests_sent
              /\ IF analysis.raised = ""
                 THEN /\ webpage_analysis' = analysis.ret
                      /\ pc' = "compare"
                      /\ UNCHANGED raised
                 ELSE /\ pc' = "crashed"
                      /\ raised' = analysis.raised
                      /\ UNCHANGED webpage_analysis
    /\ UNCHANGED <<enriched_data, keyword, insights, comparison, config, url,
                   serp_data, fetched_content, rendered, summary_calls>>

\* if webpage_analysis: comparison_results = compare_with_webpage(...)
\* else: comparison_results = None
CompareResults ==
    /\ pc = "compare"
    /\ comparison' =
          IF ~not_dict(webpage_analysis)
          THEN compare_with_webpage(enriched_data, webpage_analysis, keyword)
          ELSE PyNone
    /\ pc' = "render"
    /\ UNCHANGED <<enriched_data, webpage_analysis, keyword, insights, config,
                   url, serp_data, fetched_content, classifier_calls,
                   last_response, rendered, summary_calls, raised,
                   requests_sent>>

\* The detailed table, then the two charts read from serp_insights:
\* serp_insights["sentiment_distribution"] is a KeyError on the error dict.
RenderSerpResults ==
    /\ pc = "render"
    /\ IF "sentiment_distribution" \in DOMAIN insights
       THEN /\ rendered' = rendered \cup
                  {"detailed_table", "sentiment_distribution", "top_emotions"}
            /\ pc' = "render_webpage"
            /\ UNCHANGED raised
       ELSE /\ rendered' = rendered \cup {"detailed_table"}
            /\ pc' = "crashed"
            /\ raised' = "KeyError"
    /\ UNCHANGED <<enriched_data, webpage_analysis, keyword, insights,
                   comparison, config, url, serp_data, fetched_content,
                   classifier_calls, last_response, summary_calls,
                   requests_sent>>

\* if webpage_analysis: the webpage table, the comparison table and chart,
\* then the summary request and its text.
RenderWebpageResults ==
    /\ pc = "render_webpage"
    /\ IF not_dict(webpage_analysis)
       THEN /\ pc' = "export"
            /\ UNCHANGED <<rendered, summary_calls, raised, requests_sent>>
       ELSE IF "serp_primary_emotions" \notin DOMAIN comparison
       THEN /\ rendered' = rendered \cup {"webpage_analysis"}
            /\ pc' = "crashed"
            /\ raised' = "KeyError"
            /\ UNCHANGED <<summary_calls, requests_sent>>
       ELSE \E response \in SummaryResponses :
               LET summary == generate_summary_and_recommendation(response)
               IN  /\ summary_calls' = summary_calls + 1
                   /\ requests_sent' = requests_sent \cup {"summary"}
                   /\ IF summary.raised = ""
                      THEN /\ rendered' = rendered \cup
                                 {"webpage_analysis", "comparison",
                                  "score_comparison", "summary"}
                           /\ pc' = "export"
                           /\ UNCHANGED raised
                      ELSE /\ rendered' = rendered \cup
                                 {"webpage_analysis", "comparison",
                                  "score_comparison"}
                           /\ pc' = "crashed"
                           /\ raised' = summary.raised
    /\ UNCHANGED <<enriched_data, webpage_analysis, keyword, insights,
                   comparison, config, url, serp_data, fetched_content,
                   classifier_calls, last_response>>

\* The download button, then the progress indicators are cleared.
ExportCsv ==
    /\ pc = "export"
    /\ rendered' = rendered \cup {"export"}
    /\ pc' = "done"
    /\ UNCHANGED <<enriched_data, webpage_analysis, keyword, insights,
                   comparison, config, url, serp_data, fetched_content,
                   classifier_calls, last_response, summary_calls, raised,
                   requests_sent>>

NextMain ==
    \/ CheckCredentials
    \/ FetchSerpData
    \/ EnrichPosition
    \/ GenerateSerpInsights
    \/ FetchWebpageContent
    \/ AnalyzeWebpageContent
    \/ CompareResults
    \/ RenderSerpResults
    \/ RenderWebpageResults
    \/ ExportCsv

SpecMain == InitMain /\ [][NextMain]_vars

\* ------------------------------------------------------------------------
\* Vocabulary of the properties
\* ------------------------------------------------------------------------

InsightsFields ==
    {"sentiment_distribution", "top_emotions", "average_sentiment_score",
     "total_positions"}

ComparisonFields ==
    {"serp_average_sentiment_score", "webpage_sentiment_score",
     "serp_primary_emotions", "webpage_primary_emotion", "serp_tones",
     "webpage_tone", "serp_keyword_density", "webpage_keyword_density"}

\* generate_insights has returned an Insights / compare_with_webpage a Comparison.
IsInsights(x) == "total_positions" \in DOMAIN x

IsComparison(x) == "serp_keyword_density" \in DOMAIN x

\* Two fractions denote the same number.
SameNumber(a, b) == a.num * b.den = b.num * a.den

\* Sum of f over the finite set S of indices.
RECURSIVE SumOver(_, _)
SumOver(S, f) ==
    IF S = {} THEN 0
    ELSE LET x == CHOOSE y \in S : TRUE IN f[x] + SumOver(S \ {x}, f)

\* The sum of the counts of a label-to-count dict.
SumOfCounts(dist) == SumOver(DOMAIN dist, [i \in DOMAIN dist |-> dist[i][2]])

\* The positions of ed whose record carries a sentiment_score of a numeric
\* type (a string, None or a missing key is not).
NumericPositions(ed) ==
    {i \in DOMAIN ed :
        /\ "sentiment_score" \in DOMAIN ed[i]
        /\ ed[i].sentiment_score.type \in {"int", "float", "bool"}}

\* The arithmetic mean of the numeric scores of ed, 0 when there is none.
MeanOfNumeric(ed) ==
    LET N == NumericPositions(ed)
    IN  IF N = {} THEN Zero
        ELSE [num |-> SumOver(N, [i \in N |-> ed[i].sentiment_score.num]),
              den |-> Cardinality(N)]

\* r carries the nine fields of the classifier's failure record.
IsErrorRecord(r) ==
    /\ DOMAIN error_record \subseteq DOMAIN r
    /\ \A k \in DOMAIN error_record : r[k] = error_record[k]

\* ------------------------------------------------------------------------
\* Properties
\* ------------------------------------------------------------------------

\* C1: for every non-empty list, the counts of sentiment_distribution sum to
\* total_positions, also when a record's sentiment is missing or None.
C1_DistributionSumsToTotal ==
    IsInsights(insights) =>
        SumOfCounts(insights.sentiment_distribution) = insights.total_positions

\* C2: average_sentiment_score is the arithmetic mean of the records whose
\* sentiment_score is a genuine number; a string, None or missing score is
\* left out of numerator and denominator and never counted as 0.
C2_AverageOverNumericOnly ==
    IsInsights(insights) =>
        SameNumber(insights.average_sentiment_score, MeanOfNumeric(enriched_data))

\* C3: a record the classifier produced on a failed call (sentiment "error")
\* counts toward total_positions and the distribution but not toward the
\* average: appending it to a list leaves average_sentiment_score unchanged.
C3_ErrorRecordLeavesAverage ==
    LET n == Len(enriched_data)
        before == generate_insights(SubSeq(enriched_data, 1, n - 1))
    IN  (IsInsights(insights) /\ n >= 2 /\ IsErrorRecord(enriched_data[n])) =>
            /\ insights.total_positions = before.total_positions + 1
            /\ \E i \in DOMAIN insights.sentiment_distribution :
                   insights.sentiment_distribution[i][1] = PyStr("error")
            /\ SameNumber(insights.average_sentiment_score,
                          before.average_sentiment_score)

\* C4: generate_insights on an empty list returns the error outcome, which
\* carries no Insights field, and an Insights never carries the error key.
C4_EmptyInputSignalsError ==
    insights # Pending =>
        IF Len(enriched_data) = 0
        THEN DOMAIN insights = {"error"}
        ELSE DOMAIN insights = InsightsFields

\* C4 witness: generate_insights has returned on an empty list.
C4_Witness ==
    /\ enriched_data = <<>>
    /\ insights = insights_error

\* C5: compare_with_webpage returns the insufficient-data outcome, with no
\* comparison field, exactly when serp_records is empty or webpage_record is
\* absent (None or a dict with no entry); otherwise it returns a Comparison
\* with all eight fields and no error.
C5_InsufficientDataOrComparison ==
    comparison # Pending =>
        IF \/ Len(enriched_data) = 0
           \/ webpage_analysis = PyNone
           \/ DOMAIN webpage_analysis = {}
        THEN DOMAIN comparison = {"error"}
        ELSE DOMAIN comparison = ComparisonFields

\* C5 witness: the comparison was refused for an empty serp_records although
\* the webpage record carries content.
C5_Witness ==
    /\ enriched_data = <<>>
    /\ webpage_analysis # PyNone
    /\ "content" \in DOMAIN webpage_analysis
    /\ comparison = comparison_error

\* Two characters are the same letter, whatever their case.
SameLetter(a, b) ==
    \/ a = b
    \/ \E i \in 1..26 : {a, b} = {ascii_uppercase[i], ascii_lowercase[i]}

\* The positions of s where kw occurs, case ignored.
OccurrencesCI(s, kw) ==
    {j \in 1..(Len(s) - Len(kw) + 1) :
        \A k \in 1..Len(kw) : SameLetter(s[j + k - 1], kw[k])}

\* The largest number of occurrences of kw in s, case ignored, no two of
\* which overlap.
OccurrenceCount(s, kw) ==
    LET apart(T) == \A a, b \in T : a < b => b - a >= Len(kw)
        sizes == {Cardinality(T) : T \in {U \in SUBSET OccurrencesCI(s, kw) : apart(U)}}
    IN  CHOOSE m \in sizes : \A x \in sizes : x <= m

\* The number of whitespace-separated words of s: the positions where a
\* word starts.
WordCount(s) ==
    Cardinality({i \in 1..Len(s) :
        s[i] \notin Whitespace /\ (i = 1 \/ s[i - 1] \in Whitespace)})

\* The positions of ed whose title contains kw, case ignored.
MatchingTitles(ed, kw) ==
    {i \in DOMAIN ed :
        "title" \in DOMAIN ed[i] /\ OccurrencesCI(ed[i].title, kw) # {}}

\* C6: for non-empty serp_records and a non-empty keyword,
\* serp_keyword_density is (records whose title contains the keyword, case
\* ignored) / (records); a record counts at most once, so it lies in [0, 1].
C6_SerpKeywordDensity ==
    (IsComparison(comparison) /\ keyword # <<>>) =>
        LET d == comparison.serp_keyword_density
        IN  /\ d.den > 0
            /\ d.num * Len(enriched_data)
                   = Cardinality(MatchingTitles(enriched_data, keyword)) * d.den
            /\ 0 <= d.num
            /\ d.num <= d.den

\* C6 witness: the titles "Best Digital Marketing Tips", "Marketing 101" and
\* "Unrelated Topic" with the keyword "marketing" gave 2/3.
C6_Witness ==
    /\ Len(enriched_data) = 3
    /\ \A i \in 1..3 : "title" \in DOMAIN enriched_data[i]
    /\ enriched_data[1].title = title_tips
    /\ enriched_data[2].title = title_101
    /\ enriched_data[3].title = title_unrelated
    /\ keyword = <<"m","a","r","k","e","t","i","n","g">>
    /\ IsComparison(comparison)
    /\ comparison.serp_keyword_density = [num |-> 2, den |-> 3]

\* C7: for a non-empty keyword, webpage_keyword_density is (occurrences of
\* the keyword in the content, case ignored) / (whitespace-separated words of
\* the content), and 0 when the content is empty, all whitespace or absent.
C7_WebpageKeywordDensity ==
    (IsComparison(comparison) /\ keyword # <<>>) =>
        LET d == comparison.webpage_keyword_density
            content == IF "content" \in DOMAIN webpage_analysis
                       THEN webpage_analysis.content ELSE <<>>
        IN  IF WordCount(content) = 0
            THEN d = Zero
            ELSE /\ d.den > 0
                 /\ d.num * WordCount(content)
                        = OccurrenceCount(content, keyword) * d.den

\* C7 witness: the content "marketing marketing strategy guide" with the
\* keyword "marketing" gave 2/4.
C7_Witness ==
    /\ IsComparison(comparison)
    /\ "content" \in DOMAIN webpage_analysis
    /\ webpage_analysis.content = content_guide
    /\ keyword = <<"m","a","r","k","e","t","i","n","g">>
    /\ comparison.webpage_keyword_density = [num |-> 1, den |-> 2]

\* C8: serp_primary_emotions and serp_tones have one element per input
\* record, element i being the primary_emotion (the tone) of record i, in
\* input order, repeats kept ("none" for a record that carries none).
C8_PassThroughProjections ==
    IsComparison(comparison) =>
        /\ Len(comparison.serp_primary_emotions) = Len(enriched_data)
        /\ Len(comparison.serp_tones) = Len(enriched_data)
        /\ \A i \in 1..Len(enriched_data) :
              /\ comparison.serp_primary_emotions[i] =
                    (IF "primary_emotion" \in DOMAIN enriched_data[i]
                     THEN enriched_data[i].primary_emotion ELSE "none")
              /\ comparison.serp_tones[i] =
                    (IF "tone" \in DOMAIN enriched_data[i]
                     THEN enriched_data[i].tone ELSE "none")

\* C8 witness: three records whose emotions are joy, fear, joy were projected
\* in that order, the repeat kept.
C8_Witness ==
    /\ IsComparison(comparison)
    /\ comparison.serp_primary_emotions = <<"joy", "fear", "joy">>
    /\ comparison.serp_tones = <<"urgent", "technical", "urgent">>

\* C9: for a non-empty list and a webpage record that is present,
\* serp_average_sentiment_score of compare_with_webpage equals
\* average_sentiment_score of generate_insights on the same list.
C9_SameAverage ==
    (IsInsights(insights) /\ IsComparison(comparison)) =>
        comparison.serp_average_sentiment_score = insights.average_sentiment_score

\* C9 witness: both operations have returned on a list that mixes numeric
\* and non-numeric scores and whose average is not 0.
C9_Witness ==
    /\ IsInsights(insights)
    /\ IsComparison(comparison)
    /\ NumericPositions(enriched_data) # {}
    /\ NumericPositions(enriched_data) # DOMAIN enriched_data
    /\ insights.average_sentiment_score # Zero

\* The emotion labels of ed and the places (record, index) where each occurs.
EmotionsOf(r) == IF "emotions" \in DOMAIN r THEN r.emotions ELSE <<>>

EmotionLabels(ed) ==
    UNION {{EmotionsOf(ed[i])[j] : j \in DOMAIN EmotionsOf(ed[i])} : i \in DOMAIN ed}

EmotionCount(ed, e) ==
    Cardinality(UNION {{<<i, j>> : j \in {k \in DOMAIN EmotionsOf(ed[i]) :
                                            EmotionsOf(ed[i])[k] = e}} :
                       i \in DOMAIN ed})

Min(a, b) == IF a < b THEN a ELSE b

\* C10: top_emotions has min(3, distinct labels) entries (label, occurrences
\* of the label in the flattened emotions), sorted by count descending, and
\* no omitted label has a count strictly greater than an included one.
C10_TopEmotions ==
    IsInsights(insights) =>
        LET te == insights.top_emotions
            labels == EmotionLabels(enriched_data)
            included == {te[k][1] : k \in DOMAIN te}
        IN  /\ Len(te) = Min(3, Cardinality(labels))
            /\ Cardinality(included) = Len(te)
            /\ \A k \in DOMAIN te :
                  /\ te[k][1] \in labels
                  /\ te[k][2] = EmotionCount(enriched_data, te[k][1])
            /\ \A k \in 1..(Len(te) - 1) : te[k][2] >= te[k + 1][2]
            /\ \A e \in labels \ included :
                  \A k \in DOMAIN te : EmotionCount(enriched_data, e) <= te[k][2]

\* C10 witness: four distinct labels with different counts were cut to three.
C10_Witness ==
    /\ IsInsights(insights)
    /\ Cardinality(EmotionLabels(enriched_data)) = 4
    /\ Len(insights.top_emotions) = 3
    /\ insights.top_emotions[1][2] > insights.top_emotions[3][2]

\* C11 (two calls on the same inputs return identical outputs and leave the
\* inputs unmodified) relates two executions; both operations are operators
\* here, so it is not stated as a formula of this module.

\* C12: for a non-empty list in which no record has a numeric
\* sentiment_score, generate_insights returns an Insights with
\* average_sentiment_score 0; total_positions is always the full input
\* length, records left out of the average included.
C12_NoNumericScoreAveragesZero ==
    (insights # Pending /\ Len(enriched_data) > 0) =>
        /\ IsInsights(insights)
        /\ insights.total_positions = Len(enriched_data)
        /\ NumericPositions(enriched_data) = {} =>
               SameNumber(insights.average_sentiment_score, Zero)

\* C12 witness: several records, none with a numeric score, were aggregated.
C12_Witness ==
    /\ IsInsights(insights)
    /\ Len(enriched_data) >= 2
    /\ NumericPositions(enriched_data) = {}
    /\ \E i \in DOMAIN enriched_data :
           "sentiment_score" \in DOMAIN enriched_data[i]

\* The record's sentiment_score is present and is a string or None.
HasNonNumericScore(r) ==
    /\ "sentiment_score" \in DOMAIN r
    /\ r.sentiment_score.type \in {"str", "NoneType"}

KeepsScore(r) == ~HasNonNumericScore(r)

\* The record's sentiment is a string label.
HasLabel(r) == "sentiment" \in DOMAIN r /\ r.sentiment.type = "str"

\* C13: malformed field values never abort aggregation: every non-empty
\* list yields an Insights; a non-numeric sentiment_score is filtered out
\* (the average is that of the list without such records) and every
\* sentiment label, known or not, enters the distribution unchanged with
\* the number of records that carry it.
C13_MalformedValuesTolerated ==
    (insights # Pending /\ Len(enriched_data) > 0) =>
        /\ DOMAIN insights = InsightsFields
        /\ SameNumber(insights.average_sentiment_score,
                      average_sentiment_score(SelectSeq(enriched_data, KeepsScore)))
        /\ \A i \in DOMAIN enriched_data :
              HasLabel(enriched_data[i]) =>
                 \E k \in DOMAIN insights.sentiment_distribution :
                    /\ insights.sentiment_distribution[k][1] = enriched_data[i].sentiment
                    /\ insights.sentiment_distribution[k][2] =
                          Cardinality({j \in DOMAIN enriched_data :
                              /\ HasLabel(enriched_data[j])
                              /\ enriched_data[j].sentiment = enriched_data[i].sentiment})

\* C13 witness: a list with an unknown label and an out-of-range score next
\* to a record with a string score was aggregated.
C13_Witness ==
    /\ IsInsights(insights)
    /\ \E i, j \in DOMAIN enriched_data :
          /\ HasLabel(enriched_data[i])
          /\ enriched_data[i].sentiment = PyStr("mixed")
          /\ enriched_data[i].sentiment_score = PyFloat(-3)
          /\ HasNonNumericScore(enriched_data[j])
          /\ enriched_data[j].sentiment_score.type = "str"

\* ------------------------------------------------------------------------
\* Properties of the classifier and of the run of main()
\* ------------------------------------------------------------------------

\* The classifier calls made so far that returned.
ReturnedCalls == {i \in DOMAIN classifier_calls : classifier_calls[i].outcome.raised = ""}

\* C14: every record the classifier returns, on every outcome (empty text,
\* successful response, response with no choices, failed call), carries
\* exactly the nine sentiment fields, so every enriched record built from
\* it carries all of them.
C14_AllNineFields ==
    /\ \A i \in ReturnedCalls :
          DOMAIN classifier_calls[i].outcome.ret = SentimentFields
    /\ \A i \in DOMAIN enriched_data :
          SentimentFields \subseteq DOMAIN enriched_data[i]
    /\ (webpage_analysis # Pending /\ webpage_analysis # PyNone) =>
          DOMAIN webpage_analysis = SentimentFields

\* C14 witness: the run has seen a record built from an empty analysis
\* object, one for a response without choices and one for a failed call.
C14_Witness ==
    /\ pc = "render"
    /\ \E i, j, k \in ReturnedCalls :
          /\ classifier_calls[i].outcome.ret.brief_explanation = "No explanation provided"
          /\ classifier_calls[j].outcome.ret = empty_result_record
          /\ classifier_calls[k].outcome.ret = error_record

\* The response carries an analysis the classifier can read: a JSON object
\* whose first choice has a message whose content decodes to an object.
WellFormed(response) ==
    /\ response.status = "ok"
    /\ response.body.json = "object"
    /\ "choices" \in DOMAIN response.body.value
    /\ Len(response.body.value.choices) > 0
    /\ "message" \in DOMAIN response.body.value.choices[1]
    /\ response.body.value.choices[1].message.content.type = "str"
    /\ response.body.value.choices[1].message.content.loads.json = "object"

\* The response is a JSON object without any choice.
NoChoices(response) ==
    /\ response.status = "ok"
    /\ response.body.json = "object"
    /\ \/ "choices" \notin DOMAIN response.body.value
       \/ Len(response.body.value.choices) = 0

\* The classification call itself failed: the request failed, or the body
\* or the message content is not JSON, or a key is missing, or the content
\* has an unexpected shape.
ClassificationFailed(response) ==
    /\ response # NoResponse
    /\ ~WellFormed(response)
    /\ ~NoChoices(response)

\* C15: whenever the classification call itself fails, the classifier
\* returns a record with sentiment "error" and every other field defaulted;
\* the failure never propagates to the caller as an exception.
C15_FailureReturnsErrorRecord ==
    (/\ Len(classifier_calls) > 0
     /\ classifier_calls[Len(classifier_calls)].outcome.requested
     /\ ClassificationFailed(last_response)) =>
        LET outcome == classifier_calls[Len(classifier_calls)].outcome
        IN  /\ outcome.raised = ""
            /\ outcome.ret.sentiment = PyStr("error")
            /\ Without(outcome.ret, {"brief_explanation"}) =
                  Without(error_record, {"brief_explanation"})

\* Every character of the text is whitespace (the empty text included).
IsBlank(text) == \A k \in DOMAIN text : text[k] \in Whitespace

\* C16: for an empty or whitespace-only text the classifier returns the
\* fixed default record (sentiment "neutral", sentiment_score 0,
\* emotional_intensity 0, emotions and key_psychological_triggers empty)
\* and sends no request to the language-model service.
C16_BlankTextNoRequest ==
    \A i \in DOMAIN classifier_calls :
       IsBlank(classifier_calls[i].text) =>
          LET outcome == classifier_calls[i].outcome
          IN  /\ outcome.raised = ""
              /\ ~outcome.requested
              /\ outcome.ret.sentiment = PyStr("neutral")
              /\ outcome.ret.sentiment_score = PyInt(0)
              /\ outcome.ret.emotional_intensity = 0
              /\ outcome.ret.emotions = <<>>
              /\ outcome.ret.key_psychological_triggers = <<>>
              /\ outcome.ret = neutral_record

\* C16 witness: the classifier was called on an empty text, on a
\* whitespace-only title and on a whitespace-only page, before any request.
C16_Witness ==
    /\ Len(classifier_calls) = 3
    /\ last_response = NoResponse
    /\ classifier_calls[1].text = <<>>
    /\ classifier_calls[2].text = title_blank
    /\ classifier_calls[3].text = content_blank
    /\ webpage_analysis = neutral_record

\* The SERP provider answered with a positions list that is empty.
EmptyPositions ==
    /\ "positions" \in DOMAIN serp_data
    /\ Len(serp_data.positions) = 0

\* C17: when the SERP provider returns an empty positions list, main()
\* presents a no-data outcome: the run ends without an unhandled failure
\* and renders no report from the aggregator's error result.
C17_EmptyPositionsNoFailure ==
    EmptyPositions =>
        /\ pc # "crashed"
        /\ raised = ""
        /\ rendered \cap {"sentiment_distribution", "top_emotions"} = {}

\* What the SERP part and the webpage part of the report consist of.
SerpSections ==
    {"detailed_table", "sentiment_distribution", "top_emotions", "export"}

WebpageSections ==
    {"webpage_analysis", "comparison", "score_comparison", "summary"}

\* C18: when the webpage is absent (no URL, fetch failure, nothing
\* extracted), main() never calls compare_with_webpage or the summary
\* generator and renders no webpage section, while the SERP part of the
\* report is still produced and the run reaches completion.
C18_AbsentWebpageStillCompletes ==
    webpage_analysis = PyNone =>
        /\ comparison \in {Pending, PyNone}
        /\ summary_calls = 0
        /\ rendered \cap WebpageSections = {}
        /\ pc # "crashed"
        /\ pc = "done" => SerpSections \subseteq rendered

\* The part of C18 that does not depend on the run completing.
C18_AbsentWebpageSkipsComparison ==
    webpage_analysis = PyNone =>
        /\ comparison \in {Pending, PyNone}
        /\ summary_calls = 0
        /\ rendered \cap WebpageSections = {}
        /\ pc = "done" => SerpSections \subseteq rendered

\* The title of a position, the empty text when it has none.
TitleOrEmpty(p) == IF "title" \in DOMAIN p THEN p.title ELSE <<>>

\* C19: enrichment calls the classifier exactly once per SERP position, on
\* that position's title, in input order; record i of the result carries
\* the classifier's sentiment fields for position i and every other field
\* of position i unchanged; every position has been classified before
\* generate_insights is invoked.
C19_EnrichmentOncePerPosition ==
    "positions" \in DOMAIN serp_data =>
        LET ps == serp_data.positions
            n  == Len(enriched_data)
        IN  /\ n <= Len(ps)
            /\ n <= Len(classifier_calls)
            /\ pc \in {"enrich", "webpage"} => Len(classifier_calls) = n
            /\ insights # Pending => n = Len(ps)
            /\ \A i \in 1..n :
                  /\ classifier_calls[i].text = TitleOrEmpty(ps[i])
                  /\ DOMAIN enriched_data[i] = DOMAIN ps[i] \cup SentimentFields
                  /\ \A f \in DOMAIN ps[i] : enriched_data[i][f] = ps[i][f]
                  /\ \A f \in SentimentFields :
                        enriched_data[i][f] = classifier_calls[i].outcome.ret[f]

\* C19 witness: two different positions were classified with different
\* results and generate_insights has been invoked.
C19_Witness ==
    /\ pc = "webpage"
    /\ IsInsights(insights)
    /\ Len(serp_data.positions) = 2
    /\ serp_data.positions[1] # serp_data.positions[2]
    /\ classifier_calls[1].outcome.ret # classifier_calls[2].outcome.ret
    /\ "traffic" \in DOMAIN enriched_data[1]

\* C20: in the run of main() the webpage record handed to
\* compare_with_webpage is the classifier's return value, which has no
\* content field, so webpage_keyword_density of the comparison is 0
\* whatever the fetched text and the keyword are.
C20_WebpageDensityAlwaysZero ==
    IsComparison(comparison) =>
        /\ "content" \notin DOMAIN webpage_analysis
        /\ SameNumber(comparison.webpage_keyword_density, Zero)

\* C20 witness: the fetched page contains the keyword and the message
\* content carried a content key of its own, and the comparison was made.
C20_Witness ==
    /\ IsComparison(comparison)
    /\ fetched_content.type = "str"
    /\ OccurrenceCount(fetched_content.chars, keyword) > 0
    /\ last_response.status = "ok"
    /\ WellFormed(last_response)
    /\ "content" \in DOMAIN last_response.body.value.choices[1].message.content.loads.value

\* Both API credentials are set.
CredentialsSet == config.AHREFS_AUTH_TOKEN /\ config.OPENAI_API_KEY

\* The SERP fetch has returned, and it failed or its response has no
\* positions key.
SerpUnusable == serp_data # Pending /\ "positions" \notin DOMAIN serp_data

\* C21: main() sends no request to any external service (SERP provider,
\* classifier, webpage fetch, summary generator) unless both API credentials
\* are set; and when the SERP fetch fails or its response has no positions
\* key, the run stops with a warning before any classifier, webpage-fetch
\* or summary call is made.
C21_NoRequestWithoutCredentialsOrSerp ==
    /\ ~CredentialsSet =>
          /\ requests_sent = {}
          /\ serp_data = Pending
          /\ classifier_calls = <<>>
          /\ fetched_content = Pending
          /\ summary_calls = 0
          /\ pc \in {"button", "stopped"}
    /\ SerpUnusable =>
          /\ pc = "stopped"
          /\ "no_serp_warning" \in rendered
          /\ requests_sent = {"serp"}
          /\ classifier_calls = <<>>
          /\ fetched_content = Pending
          /\ summary_calls = 0

\* C21 witness: with both credentials set and a URL given, the SERP fetch
\* failed and the run stopped after that one request.
C21_Witness ==
    /\ CredentialsSet
    /\ url = url_page
    /\ serp_data = PyNone
    /\ pc = "stopped"
    /\ requests_sent = {"serp"}

====
